---------------------------- MODULE Spec2Model ----------------------------
(***************************************************************************)
(* A model of jpo/hacd_analyzer: parse.py (the line-state scanner          *)
(* parse_document and its batch driver), analyze.py (role and district     *)
(* attribution, one row per speaker turn) and preprocess.py (the section   *)
(* scanner and the topic-block regex).                                     *)
(*                                                                         *)
(* Text is modelled as a sequence of symbols.  A symbol is one concrete    *)
(* character ("A", "a", "B", "b", "1", " ", "\n", ".", ",", "[", "]") or   *)
(* one literal keyword of a regex ("Mon", "WITNESS", ...), kept atomic.    *)
(* The lines the programs read are drawn from a palette of such sequences; *)
(* the regexes are operators that scan the symbols as the regex does.      *)
(***************************************************************************)
EXTENDS Integers, Sequences, FiniteSets, TLC

(***************************************************************************)
(* Symbols and character classes                                           *)
(***************************************************************************)
NL == "\n"
SP == " "
TAB == "\t"
KwDocument == "DEPARTMENT OF DEFENSE APPROPRIATIONS FOR "
KwCommittee == "SUBCOMMITTEE ON"
KwNote == "NOTE:"
KwWitness == "WITNESS"
KwChair == "Chair"
KwCommitteeDefense == "SUBCOMMITTEE ON DEFENSE"
KwWitnesses == "WITNESSES"
KwMr == "Mr"
KwGeneral == "General"
DayPrefix == {"Mon", "Tue"}
MonthPrefix == {"Jan"}

\* \s
IsSpace(c) == c \in {SP, NL, TAB}
\* \d
IsDigit(c) == c \in {"1", "2"}
\* every character of the symbol is in \w
IsWord(c) ==
  c \in {"A", "a", "B", "b", "1", "2", KwWitness, KwWitnesses, KwChair, KwMr, KwGeneral}
        \cup DayPrefix \cup MonthPrefix
\* the first character of the symbol is in [A-Z]
StartsUpper(c) ==
  c \in {"A", "B", KwWitness, KwWitnesses, KwChair, KwCommittee, KwCommitteeDefense, KwNote,
          KwDocument, KwMr, KwGeneral}
        \cup DayPrefix \cup MonthPrefix
\* every character of the symbol is in [\w\s-]
IsWordOrSpace(c) == IsWord(c) \/ IsSpace(c) \/ c \in {KwCommittee, KwCommitteeDefense, KwDocument}
\* number of characters the symbol stands for
Width(c) ==
  CASE c = KwMr -> 2
    [] c \in DayPrefix \cup MonthPrefix -> 3
    [] c \in {KwChair, KwNote} -> 5
    [] c \in {KwWitness, KwGeneral} -> 7
    [] c = KwWitnesses -> 9
    [] c = KwCommittee -> 15
    [] c = KwCommitteeDefense -> 23
    [] c = KwDocument -> 41
    [] OTHER -> 1

\* s[i], or the empty symbol past either end
At(s, i) == IF i \in 1..Len(s) THEN s[i] ELSE ""

\* the first index >= i whose symbol is not in the class P (Len(s)+1 if none)
SkipWhile(s, i, P(_)) ==
  IF \A j \in i..Len(s) : P(s[j]) THEN Len(s) + 1
  ELSE CHOOSE k \in i..Len(s) : ~P(s[k]) /\ \A j \in i..(k-1) : P(s[j])

\* regex $ without MULTILINE: at the end, or just before a final newline
AtEnd(s, i) == i = Len(s) + 1 \/ (i = Len(s) /\ s[i] = NL)

\* str.strip()
Strip(s) ==
  IF \A i \in 1..Len(s) : IsSpace(s[i]) THEN << >>
  ELSE LET a == CHOOSE i \in 1..Len(s) : ~IsSpace(s[i]) /\ \A j \in 1..(i-1) : IsSpace(s[j])
           b == CHOOSE i \in 1..Len(s) : ~IsSpace(s[i]) /\ \A j \in (i+1)..Len(s) : IsSpace(s[j])
       IN SubSeq(s, a, b)


\* total number of characters of a symbol sequence
RECURSIVE TotalWidth(_)
TotalWidth(s) == IF s = << >> THEN 0 ELSE Width(Head(s)) + TotalWidth(Tail(s))

\* x in s (substring test on symbol sequences)
Contains(s, x) == \E i \in 0..(Len(s) - Len(x)) : SubSeq(s, i + 1, i + Len(x)) = x

(***************************************************************************)
(* parse.py: the regexes, as scans over a line                             *)
(***************************************************************************)
\* DOCUMENT = ^.*?DEPARTMENT OF DEFENSE APPROPRIATIONS FOR (\d+)$
\* the positions of the keyword that are followed by digits up to the end
DocumentHits(l) ==
  {p \in 1..Len(l) : /\ l[p] = KwDocument
                     /\ \A j \in 1..(p-1) : l[j] # NL
                     /\ SkipWhile(l, p + 1, IsDigit) > p + 1
                     /\ AtEnd(l, SkipWhile(l, p + 1, IsDigit))}
MatchDOCUMENT(l) == DocumentHits(l) # {}
\* group(1) of DOCUMENT; .*? is lazy, so the first hit
DocumentYear(l) ==
  LET p == CHOOSE q \in DocumentHits(l) : \A r \in DocumentHits(l) : q <= r
  IN SubSeq(l, p + 1, SkipWhile(l, p + 1, IsDigit) - 1)

\* COMMITTEE_BEGIN = .*SUBCOMMITTEE ON.*
MatchCOMMITTEE_BEGIN(l) ==
  \E p \in 1..Len(l) : l[p] \in {KwCommittee, KwCommitteeDefense} /\ \A j \in 1..(p-1) : l[j] # NL

\* COMMITTEE_END = ^\s+NOTE:
MatchCOMMITTEE_END(l) ==
  LET i == SkipWhile(l, 1, IsSpace) IN i > 1 /\ At(l, i) = KwNote

\* HEARING = ^\s+?(Sun|Mon|..)\w+,\s(Jan|..)\w+\s\d+,\s\d+\.$
MatchHEARING(l) ==
  LET i1 == SkipWhile(l, 1, IsSpace)
      i2 == SkipWhile(l, i1 + 1, IsWord)
      i3 == SkipWhile(l, i2 + 3, IsWord)
      i4 == SkipWhile(l, i3 + 1, IsDigit)
      i5 == SkipWhile(l, i4 + 2, IsDigit)
  IN /\ i1 > 1
     /\ At(l, i1) \in DayPrefix
     /\ i2 > i1 + 1
     /\ At(l, i2) = ","
     /\ IsSpace(At(l, i2 + 1))
     /\ At(l, i2 + 2) \in MonthPrefix
     /\ i3 > i2 + 3
     /\ IsSpace(At(l, i3))
     /\ i4 > i3 + 1
     /\ At(l, i4) = ","
     /\ IsSpace(At(l, i4 + 1))
     /\ i5 > i4 + 2
     /\ At(l, i5) = "."
     /\ AtEnd(l, i5 + 1)

\* WITNESS_BEGIN = ^\s+WITNESS\w*$
MatchWITNESS_BEGIN(l) ==
  LET i == SkipWhile(l, 1, IsSpace)
  IN i > 1 /\ At(l, i) = KwWitness /\ AtEnd(l, SkipWhile(l, i + 1, IsWord))

\* WITNESS_END = ^\s{8,}
MinWitnessEndIndent == 8
MatchWITNESS_END(l) == SkipWhile(l, 1, IsSpace) - 1 >= MinWitnessEndIndent

\* SPEAKER = ^\s{4,}([A-Z][\w-]+)\.?\s([A-Z][\w\s-]+)\s?(\[\w+\])?\.(.+)$
\* Every quantifier of it has one way to succeed on a line, so the match is a
\* left-to-right scan: the indentation, the title word, an optional period and
\* one space, the surname run (greedy: it takes the spaces too), an optional
\* [tag], the period, and the remainder of the line.
MinSpeakerIndent == 4
SpeakerScan(l) ==
  LET i1 == SkipWhile(l, 1, IsSpace)
      e1 == SkipWhile(l, i1, IsWord)
      p  == IF At(l, e1) = "." THEN e1 + 1 ELSE e1
      e2 == SkipWhile(l, p + 1, IsWordOrSpace)
      t  == SkipWhile(l, e2 + 1, IsWord)
      tagged == At(l, e2) = "["
      d  == IF tagged THEN t + 1 ELSE e2
      g4 == IF At(l, Len(l)) = NL THEN Len(l) - 1 ELSE Len(l)
  IN [ok |-> /\ i1 - 1 >= MinSpeakerIndent
             /\ StartsUpper(At(l, i1))
             /\ TotalWidth(SubSeq(l, i1, e1 - 1)) >= 2
             /\ IsSpace(At(l, p))
             /\ StartsUpper(At(l, p + 1))
             /\ TotalWidth(SubSeq(l, p + 1, e2 - 1)) >= 2
             /\ (tagged => t > e2 + 1 /\ At(l, t) = "]")
             /\ At(l, d) = "."
             /\ g4 >= d + 1
             /\ \A j \in (d + 1)..g4 : l[j] # NL,
      title   |-> SubSeq(l, i1, e1 - 1),
      surname |-> SubSeq(l, p + 1, e2 - 1),
      rest    |-> SubSeq(l, d + 1, g4)]
MatchSPEAKER(l) == SpeakerScan(l).ok

(***************************************************************************)
(* parse.py: splitting a committee line                                    *)
(***************************************************************************)
\* re.split("(?:\s{2,}|\t{2,})", s): cut s at every maximal run of two or
\* more whitespace symbols
RECURSIVE SplitRuns(_)
SplitRuns(s) ==
  LET cuts == {i \in 1..Len(s) : IsSpace(s[i]) /\ IsSpace(At(s, i + 1))
                                 /\ ~IsSpace(At(s, i - 1))}
  IN IF cuts = {} THEN << s >>
     ELSE LET i == CHOOSE c \in cuts : \A c2 \in cuts : c <= c2
              j == SkipWhile(s, i, IsSpace)
          IN << SubSeq(s, 1, i - 1) >> \o SplitRuns(SubSeq(s, j, Len(s)))

\* filter(None, ...): drop the empty strings
RECURSIVE NonEmpty(_)
NonEmpty(ss) ==
  IF ss = << >> THEN << >>
  ELSE (IF Head(ss) = << >> THEN << >> ELSE << Head(ss) >>) \o NonEmpty(Tail(ss))

\* str.split(","): the fields between the commas (always at least one)
RECURSIVE SplitComma(_)
SplitComma(s) ==
  IF \A i \in 1..Len(s) : s[i] # "," THEN << s >>
  ELSE LET i == CHOOSE c \in 1..Len(s) : s[c] = "," /\ \A j \in 1..(c-1) : s[j] # ","
       IN << SubSeq(s, 1, i - 1) >> \o SplitComma(SubSeq(s, i + 1, Len(s)))

\* the members of one line of the committee section
MemberGroup(l) == NonEmpty(SplitRuns(Strip(l)))

\* "Chair" in tokens[-1]
IsChair(tokens) == Contains(tokens[Len(tokens)], << KwChair >>)

\* tokens[-2] of a one-field Chair entry is an IndexError
MemberRaises(member) ==
  LET tokens == SplitComma(member) IN IsChair(tokens) /\ Len(tokens) < 2

\* a mutant of ChairDistrict: tokens[-1], as for the other members
ChairDistrict_LastField(tokens) == Strip(tokens[Len(tokens)])

\* the district of a Chair entry: tokens[-2]
ChairDistrict(tokens) == Strip(tokens[Len(tokens) - 1])

\* the record appended for one member
MemberRecord(member) ==
  LET tokens == SplitComma(member)
  IN [name |-> Strip(tokens[1]),
      district |-> IF IsChair(tokens) THEN ChairDistrict(tokens)
                   ELSE Strip(tokens[Len(tokens)])]

\* the records of the members of a group up to (not including) the first
\* entry that raises
RECURSIVE MemberRecords(_)
MemberRecords(group) ==
  IF group = << >> \/ MemberRaises(Head(group)) THEN << >>
  ELSE << MemberRecord(Head(group)) >> \o MemberRecords(Tail(group))

GroupRaises(group) == \E i \in 1..Len(group) : MemberRaises(group[i])

(***************************************************************************)
(* analyze.py: one row per speaker turn                                    *)
(***************************************************************************)
\* str.upper(), symbol by symbol
Upper(c) ==
  CASE c = "a" -> "A"
    [] c = "b" -> "B"
    [] c = "Mon" -> "MON"
    [] c = "Tue" -> "TUE"
    [] c = "Jan" -> "JAN"
    [] c = KwChair -> "CHAIR"
    [] c = KwMr -> "MR"
    [] c = KwGeneral -> "GENERAL"
    [] OTHER -> c
UpperStr(s) == [i \in 1..Len(s) |-> Upper(s[i])]

\* Series.str.contains(pat): a regex search for pat in the name as it stands
\* (case-sensitive).  No symbol of a surname is a regex metacharacter, so the
\* search is a substring test.
StrContains(name, pat) == Contains(name, pat)

\* df_witnesses.name.str.contains(s.upper()).any()
AnyWitness(witnesses, surname) ==
  \E i \in 1..Len(witnesses) : StrContains(witnesses[i], UpperStr(surname))

\* "WITNESS" if ... else "MEMBER"
Role(witnesses, surname) ==
  IF AnyWitness(witnesses, surname) THEN "WITNESS" ELSE "MEMBER"

\* df_members[df_members.name.str.contains(s.upper())]
MatchingMembers(roster, surname) ==
  SelectSeq(roster, LAMBDA m : StrContains(m.name, UpperStr(surname)))

\* a mutant of PickDistrict: the last matching row, .values[-1]
PickDistrict_Last(hits) == hits[Len(hits)].district

\* .district.values[0] of the matching rows
PickDistrict(hits) == hits[1].district

\* ... .district.values[0] if ....any() else None
District(roster, surname) ==
  IF MatchingMembers(roster, surname) # << >>
  THEN [null |-> FALSE, value |-> PickDistrict(MatchingMembers(roster, surname))]
  ELSE [null |-> TRUE, value |-> << >>]

\* len(r.split()): the number of maximal runs of non-space symbols
WordCount(r) ==
  Cardinality({i \in 1..Len(r) : ~IsSpace(r[i]) /\ (i = 1 \/ IsSpace(r[i - 1]))})

\* r.count("?")
QuestionCount(r) == Cardinality({i \in 1..Len(r) : r[i] = "?"})

\* if "witnesses" not in hearing or "speakers" not in hearing: continue
Skipped(h) == "witnesses" \notin h.keys \/ "speakers" \notin h.keys

\* the statements of the loop body that raise: an empty speakers list has no
\* surname column, and header["year"] and hearing["date"] are KeyErrors when
\* the key is missing
HearingRaises(hd, h) ==
  h.speakers = << >> \/ "year" \notin hd.keys \/ "date" \notin h.keys

\* a mutant of HearingRows: attribution stores the surname as it compares it,
\* upper-cased
HearingRows_UpperSurname(hd, roster, h) ==
  [i \in 1..Len(h.speakers) |->
     [year |-> hd.year,
      date |-> h.date,
      title |-> h.speakers[i].title,
      surname |-> UpperStr(h.speakers[i].surname),
      role |-> Role(h.witnesses, h.speakers[i].surname),
      district |-> District(roster, h.speakers[i].surname),
      word_count |-> WordCount(h.speakers[i].remarks),
      question_count |-> QuestionCount(h.speakers[i].remarks),
      remarks |-> h.speakers[i].remarks]]

\* df_speakers of one hearing, after the reindex (the sentiment columns and
\* district_mentions, which are functions of remarks alone, are left out)
HearingRows(hd, roster, h) ==
  [i \in 1..Len(h.speakers) |->
     [year |-> hd.year,
      date |-> h.date,
      title |-> h.speakers[i].title,
      surname |-> h.speakers[i].surname,
      role |-> Role(h.witnesses, h.speakers[i].surname),
      district |-> District(roster, h.speakers[i].surname),
      word_count |-> WordCount(h.speakers[i].remarks),
      question_count |-> QuestionCount(h.speakers[i].remarks),
      remarks |-> h.speakers[i].remarks]]

\* the frames appended to output by the loop over the hearings
RECURSIVE Frames(_, _, _)
Frames(hd, roster, hs) ==
  IF hs = << >> THEN << >>
  ELSE IF Skipped(Head(hs)) THEN Frames(hd, roster, Tail(hs))
  ELSE << HearingRows(hd, roster, Head(hs)) >> \o Frames(hd, roster, Tail(hs))

\* pd.concat(output, ignore_index=True)
RECURSIVE Concat(_)
Concat(frames) == IF frames = << >> THEN << >> ELSE Head(frames) \o Concat(Tail(frames))

\* analyze raises in the loop, or in pd.concat of no frames at all
AnalyzeRaises(hd, roster, hs) ==
  \/ \E i \in 1..Len(hs) : ~Skipped(hs[i]) /\ HearingRaises(hd, hs[i])
  \/ Frames(hd, roster, hs) = << >>

(***************************************************************************)
(* The lines a transcript is made of                                       *)
(***************************************************************************)
Spaces(n) == [i \in 1..n |-> SP]

\* "DEPARTMENT OF DEFENSE APPROPRIATIONS FOR 1"
LDocument == << KwDocument, "1", NL >>
\* "DEPARTMENT OF DEFENSE APPROPRIATIONS FOR 2"
LDocument2 == << KwDocument, "2", NL >>
\* " SUBCOMMITTEE ON A"
LCommittee == << SP, KwCommittee, SP, "A", NL >>
\* "Ab, A, Chaira": name, district, a title with "Chair"
LChair == << "A", "b", ",", SP, "A", ",", SP, KwChair, "a", NL >>
\* "B, B, a": name, district, another title
LMember == << "B", ",", SP, "B", ",", SP, "a", NL >>
\* "Chaira": one field, with "Chair"
LChairOnly == << KwChair, "a", NL >>
\* " NOTE:"
LNote == << SP, KwNote, NL >>
\* " Mona, Jana 1, 1."
LDate1 == << SP, "Mon", "a", ",", SP, "Jan", "a", SP, "1", ",", SP, "1", ".", NL >>
\* "        Tuea, Jana 2, 1." (indented by eight)
LDate2 == Spaces(8) \o << "Tue", "a", ",", SP, "Jan", "a", SP, "2", ",", SP, "1", ".", NL >>
\* " WITNESS"
LWitnessBegin == << SP, KwWitness, NL >>
\* "AB" (a witness's name)
LWitness == << "A", "B", NL >>
\* "        a" (indented by eight)
LIndented == Spaces(8) \o << "a", NL >>
\* "    Aa. Ab. a b " (title Aa, surname Ab)
LSpeaker1 == Spaces(4) \o << "A", "a", ".", SP, "A", "b", ".", SP, "a", SP, "b", SP, NL >>
\* "    Aa Ba [a]. b" (title Aa, surname "Ba ", a tag)
LSpeaker2 == Spaces(4) \o << "A", "a", SP, "B", "a", SP, "[", "a", "]", ".", SP, "b", NL >>
\* "    Aa. Ab" (a speaker line without its final period)
LPartial == Spaces(4) \o << "A", "a", ".", SP, "A", "b", NL >>
\* " a  b " (plain text)
LText == << SP, "a", SP, SP, "b", SP, NL >>
\* the empty line
LBlank == << NL >>

Lines == { LDocument, LCommittee, LChair, LMember, LChairOnly, LNote, LDate1,
           LDate2, LWitnessBegin, LWitness, LIndented, LSpeaker1, LSpeaker2,
           LPartial, LText, LBlank }

\* the longest file read
MaxLines == 7
\* the most lines read inside a committee section, and inside a witness section
MaxCommitteeLines == 2
MaxWitnessLines == 1

(***************************************************************************)
(* State                                                                   *)
(***************************************************************************)
VARIABLES
  pc,             \* parse_document: "scan", "done" (returned) or "raised"
  state,          \* the scanner's state
  header,         \* output["header"]: its keys and the year
  members,        \* output["members"]
  hearings,       \* output["hearings"]
  line,           \* the line read last
  nread,          \* the number of lines read
  nwitness,       \* the number of lines read in WITNESSES state, bar its end
  dateLines,      \* history: the lines read so far that match HEARING
  committeeLines, \* history: the lines read in COMMITTEE state, bar its end
  turnLines,      \* history: the last accepted speaker line and the lines
                  \* read since (up to three; none once a fourth is read)
  patternSeen,    \* history: some line read matches DOCUMENT, COMMITTEE_BEGIN,
                  \* WITNESS_BEGIN or SPEAKER
  palette,        \* the lines the file read is made of
  apc,            \* analyze: "idle", "done" (returned) or "raised"
  rows,           \* the rows analyze returns
  prog,           \* main: the program run on a directory, "parse" or "analyze"
  files,          \* main: os.listdir(args.input)
  bidx,           \* main: the position of the loop in the listing
  written,        \* main: the positions of the files whose output is saved
  bpc,            \* main: "idle", "loop", "done" (returned) or "raised"
  ppc,            \* preprocess_document: "idle", the loop it is in
                  \* ("committee_scan", "committee_buffer", "witness_scan",
                  \* "witness_buffer"), "content", "blocks" or "done" (returned)
  file,           \* preprocess_document: the lines of the file
  fpos,           \* the position of the next line file.readline() returns
  pline,          \* line
  buffer,         \* the text written to the StringIO buffer
  committee,      \* output["committee"]
  pwitnesses,     \* output["witnesses"]
  text,           \* file.read(): the content region
  kpos,           \* finditer: where the search for the next block starts
  blocks,         \* the matches of RE_CONTENT_BLOCKS so far: start, start of
                  \* the body, end
  content         \* output["content"]

parseVars == << pc, state, header, members, hearings, line, nread, nwitness,
                dateLines, committeeLines, turnLines, patternSeen, palette >>
analyzeVars == << apc, rows >>
batchVars == << prog, files, bidx, written, bpc >>
\* the variables of the programs other than parse_document and analyze
preVars == << ppc, file, fpos, pline, buffer, committee, pwitnesses, text, kpos, blocks,
             content >>
otherVars == << batchVars, preVars >>
vars == << parseVars, analyzeVars, otherVars >>

\* a dict with none of its keys
EmptyHearing == [keys |-> {}, date |-> << >>, witnesses |-> << >>, speakers |-> << >>]

(***************************************************************************)
(* parse.py: parse_document                                                *)
(***************************************************************************)
SetLast(hs, h) == [hs EXCEPT ![Len(hs)] = h]
Last(q) == q[Len(q)]

\* output["hearings"][-1]["date"] = line.strip()
SetDate(hs, l) ==
  SetLast(hs, [Last(hs) EXCEPT !.keys = @ \cup {"date"}, !.date = Strip(l)])

\* output["hearings"].append({}), then the date
OpenHearing(hs, l) == SetDate(Append(hs, EmptyHearing), l)

\* a mutant of AddWitness: the witness goes to the first hearing, hearings[0]
AddWitness_First(hs, l) ==
  [hs EXCEPT ![1] = [@ EXCEPT !.keys = @ \cup {"witnesses"},
                              !.witnesses = Append(@, Strip(l))]]

\* value = hearings[-1].get("witnesses", []); hearings[-1]["witnesses"] = value + [line.strip()]
AddWitness(hs, l) ==
  SetLast(hs, [Last(hs) EXCEPT !.keys = @ \cup {"witnesses"},
                               !.witnesses = Append(@, Strip(l))])

\* the turn of a speaker line
NewTurn(l) ==
  [title |-> SpeakerScan(l).title,
   surname |-> SpeakerScan(l).surname,
   remarks |-> Strip(SpeakerScan(l).rest)]

\* value = hearings[-1].get("speakers", []); hearings[-1]["speakers"] = value + [turn]
AddTurn(hs, l) ==
  SetLast(hs, [Last(hs) EXCEPT !.keys = @ \cup {"speakers"},
                               !.speakers = Append(@, NewTurn(l))])

\* a mutant of JoinRemarks: "".join, no space between the two
JoinRemarks_NoSpace(remarks, l) == remarks \o Strip(l)

\* " ".join([remarks, line.strip()])
JoinRemarks(remarks, l) == remarks \o << SP >> \o Strip(l)

\* the continuation line of SPEAKER state, under its guard
\* if output["hearings"][-1].get("speakers")
AddRemarks(hs, l) ==
  IF "speakers" \in Last(hs).keys /\ Last(hs).speakers # << >>
  THEN SetLast(hs, [Last(hs) EXCEPT
         !.speakers = SetLast(@, [Last(@) EXCEPT !.remarks = JoinRemarks(@, l)])])
  ELSE hs

\* whether the scanner takes l as the start of a turn
AcceptsTurn(st, l) ==
  \/ st = "CONTENT" /\ ~MatchHEARING(l) /\ MatchSPEAKER(l)
  \/ st = "SPEAKER" /\ Strip(l) # << >> /\ MatchSPEAKER(l)

\* line = file.readline(), with the histories
Read(l) ==
  /\ pc = "scan"
  /\ nread < MaxLines
  /\ UNCHANGED << analyzeVars, otherVars >>
  /\ line' = l
  /\ nread' = nread + 1
  /\ UNCHANGED palette
  /\ (state = "COMMITTEE" /\ ~MatchCOMMITTEE_END(l))
       => Len(committeeLines) < MaxCommitteeLines
  /\ (state = "WITNESSES" /\ ~MatchWITNESS_END(l)) => nwitness < MaxWitnessLines
  /\ nwitness' = IF state = "WITNESSES" /\ ~MatchWITNESS_END(l)
                 THEN nwitness + 1 ELSE nwitness
  /\ dateLines' = IF MatchHEARING(l) THEN Append(dateLines, l) ELSE dateLines
  /\ committeeLines' = IF state = "COMMITTEE" /\ ~MatchCOMMITTEE_END(l)
                       THEN Append(committeeLines, l) ELSE committeeLines
  /\ turnLines' = IF AcceptsTurn(state, l) THEN << l >>
                  ELSE IF Len(turnLines) \in {1, 2} THEN Append(turnLines, l)
                  ELSE << >>
  /\ patternSeen' = (\/ patternSeen
                     \/ MatchDOCUMENT(l)
                     \/ MatchCOMMITTEE_BEGIN(l)
                     \/ MatchWITNESS_BEGIN(l)
                     \/ MatchSPEAKER(l))

\* a mutant of StartLine: a hearing-date line is taken in START state too
StartLine_TakesDate ==
  \E l \in palette :
    /\ state = "START"
    /\ Read(l)
    /\ IF MatchDOCUMENT(l)
       THEN /\ header' = [keys |-> {"year"}, year |-> DocumentYear(l)]
            /\ state' = "DOCUMENT"
            /\ UNCHANGED hearings
       ELSE /\ hearings' = IF MatchHEARING(l) THEN SetDate(hearings, l) ELSE hearings
            /\ UNCHANGED << header, state >>
    /\ UNCHANGED << pc, members >>

StartLine ==
  \E l \in palette :
    /\ state = "START"
    /\ Read(l)
    /\ IF MatchDOCUMENT(l)
       THEN /\ header' = [keys |-> {"year"}, year |-> DocumentYear(l)]
            /\ state' = "DOCUMENT"
       ELSE UNCHANGED << header, state >>
    /\ UNCHANGED << pc, members, hearings >>

\* a mutant of DocumentLine: a line that matches DOCUMENT records its year
\* again
DocumentLine_RewritesYear ==
  \E l \in palette :
    /\ state = "DOCUMENT"
    /\ Read(l)
    /\ IF MatchCOMMITTEE_BEGIN(l)
       THEN state' = "COMMITTEE" /\ UNCHANGED hearings
       ELSE IF MatchHEARING(l)
       THEN state' = "HEARING" /\ hearings' = SetDate(hearings, l)
       ELSE UNCHANGED << state, hearings >>
    /\ header' = IF MatchDOCUMENT(l)
                 THEN [keys |-> {"year"}, year |-> DocumentYear(l)] ELSE header
    /\ UNCHANGED << pc, members >>

DocumentLine ==
  \E l \in palette :
    /\ state = "DOCUMENT"
    /\ Read(l)
    /\ IF MatchCOMMITTEE_BEGIN(l)
       THEN state' = "COMMITTEE" /\ UNCHANGED hearings
       ELSE IF MatchHEARING(l)
       THEN state' = "HEARING" /\ hearings' = SetDate(hearings, l)
       ELSE UNCHANGED << state, hearings >>
    /\ UNCHANGED << pc, header, members >>

CommitteeLine ==
  \E l \in palette :
    /\ state = "COMMITTEE"
    /\ Read(l)
    /\ IF MatchCOMMITTEE_END(l)
       THEN state' = "DOCUMENT" /\ UNCHANGED << members, pc >>
       ELSE /\ members' = members \o MemberRecords(MemberGroup(l))
            /\ pc' = IF GroupRaises(MemberGroup(l)) THEN "raised" ELSE pc
            /\ UNCHANGED state
    /\ UNCHANGED << header, hearings >>

\* a mutant of HearingLine: the witness-begin line leads straight to CONTENT
HearingLine_ToContent ==
  \E l \in palette :
    /\ state = "HEARING"
    /\ Read(l)
    /\ state' = IF MatchWITNESS_BEGIN(l) THEN "CONTENT" ELSE state
    /\ UNCHANGED << pc, header, members, hearings >>

HearingLine ==
  \E l \in palette :
    /\ state = "HEARING"
    /\ Read(l)
    /\ state' = IF MatchWITNESS_BEGIN(l) THEN "WITNESSES" ELSE state
    /\ UNCHANGED << pc, header, members, hearings >>

WitnessesLine ==
  \E l \in palette :
    /\ state = "WITNESSES"
    /\ Read(l)
    /\ IF MatchWITNESS_END(l)
       THEN state' = "CONTENT" /\ UNCHANGED hearings
       ELSE IF Strip(l) # << >>
       THEN hearings' = AddWitness(hearings, l) /\ UNCHANGED state
       ELSE UNCHANGED << state, hearings >>
    /\ UNCHANGED << pc, header, members >>

\* a mutant of ContentLine: a line that is neither a date nor a speaker line
\* is joined to the remarks of the last turn
ContentLine_Appends ==
  \E l \in palette :
    /\ state = "CONTENT"
    /\ Read(l)
    /\ IF MatchHEARING(l)
       THEN state' = "HEARING" /\ hearings' = OpenHearing(hearings, l)
       ELSE IF MatchSPEAKER(l)
       THEN state' = "SPEAKER" /\ hearings' = AddTurn(hearings, l)
       ELSE hearings' = AddRemarks(hearings, l) /\ UNCHANGED state
    /\ UNCHANGED << pc, header, members >>

ContentLine ==
  \E l \in palette :
    /\ state = "CONTENT"
    /\ Read(l)
    /\ IF MatchHEARING(l)
       THEN state' = "HEARING" /\ hearings' = OpenHearing(hearings, l)
       ELSE IF MatchSPEAKER(l)
       THEN state' = "SPEAKER" /\ hearings' = AddTurn(hearings, l)
       ELSE UNCHANGED << state, hearings >>
    /\ UNCHANGED << pc, header, members >>

\* a mutant of SpeakerLine: a hearing-date line opens a new hearing, the
\* state staying SPEAKER
SpeakerLine_OpensHearing ==
  \E l \in palette :
    /\ state = "SPEAKER"
    /\ Read(l)
    /\ IF Strip(l) = << >>
       THEN state' = "CONTENT" /\ UNCHANGED hearings
       ELSE IF MatchHEARING(l)
       THEN hearings' = OpenHearing(hearings, l) /\ UNCHANGED state
       ELSE IF MatchSPEAKER(l)
       THEN hearings' = AddTurn(hearings, l) /\ UNCHANGED state
       ELSE hearings' = AddRemarks(hearings, l) /\ UNCHANGED state
    /\ UNCHANGED << pc, header, members >>

SpeakerLine ==
  \E l \in palette :
    /\ state = "SPEAKER"
    /\ Read(l)
    /\ IF Strip(l) = << >>
       THEN state' = "CONTENT" /\ UNCHANGED hearings
       ELSE IF MatchSPEAKER(l)
       THEN hearings' = AddTurn(hearings, l) /\ UNCHANGED state
       ELSE hearings' = AddRemarks(hearings, l) /\ UNCHANGED state
    /\ UNCHANGED << pc, header, members >>

\* readline() returns "": the loop ends and output is returned
EndOfFile ==
  /\ pc = "scan"
  /\ pc' = "done"
  /\ line' = << >>
  /\ UNCHANGED << state, header, members, hearings, nread, nwitness,
                  dateLines, committeeLines, turnLines, patternSeen, palette >>
  /\ UNCHANGED << analyzeVars, otherVars >>

\* analyze.py: analyze, on the JSON document parse.py saved
Analyze ==
  /\ pc = "done"
  /\ apc = "idle"
  /\ IF AnalyzeRaises(header, members, hearings)
     THEN apc' = "raised" /\ UNCHANGED rows
     ELSE apc' = "done" /\ rows' = Concat(Frames(header, members, hearings))
  /\ UNCHANGED << parseVars, otherVars >>

\* the state after output = {...} and state = "START"
ParseStart ==
  /\ pc = "scan"
  /\ state = "START"
  /\ header = [keys |-> {}, year |-> << >>]
  /\ members = << >>
  /\ hearings = << EmptyHearing >>
  /\ line = << >>
  /\ nread = 0
  /\ nwitness = 0
  /\ dateLines = << >>
  /\ committeeLines = << >>
  /\ turnLines = << >>
  /\ patternSeen = FALSE

\* the same, for a file made of the lines of Lines
ParseInit == ParseStart /\ palette = Lines

\* analyze not yet run
AnalyzeIdle == apc = "idle" /\ rows = << >>

\* main not run on a directory
BatchIdle ==
  /\ prog = "parse"
  /\ files = << >>
  /\ bidx = 1
  /\ written = {}
  /\ bpc = "idle"

\* preprocess_document not run
PreIdle ==
  /\ ppc = "idle"
  /\ file = << >>
  /\ fpos = 1
  /\ pline = << >>
  /\ buffer = << >>
  /\ committee = << >>
  /\ pwitnesses = << >>
  /\ text = << >>
  /\ kpos = 1
  /\ blocks = << >>
  /\ content = << >>

Init == ParseInit /\ AnalyzeIdle /\ BatchIdle /\ PreIdle

Next ==
  \/ StartLine
  \/ DocumentLine
  \/ CommitteeLine
  \/ HearingLine
  \/ WitnessesLine
  \/ ContentLine
  \/ SpeakerLine
  \/ EndOfFile
  \/ Analyze

Spec == Init /\ [][Next]_vars

(***************************************************************************)
(* analyze.py on its own: analyze applied to a JSON document with one      *)
(* hearing, its rosters and turns drawn from small sets                    *)
(***************************************************************************)
\* the longest committee roster, witness roster and list of turns drawn
MaxRoster == 2
MaxWitnesses == 2
MaxTurns == 2

\* roster names: "AB", "ABA" (which contains "AB"), "Ab" (mixed case), "BB"
RosterNames == { << "A", "B" >>, << "A", "B", "A" >>, << "A", "b" >>, << "B", "B" >> }
\* surnames as SPEAKER captures them: "Ab", "AB", "Bb"
Surnames == { << "A", "b" >>, << "A", "B" >>, << "B", "b" >> }
\* the district of the i-th roster entry: "a", "aa", ... (all different)
DistrictAt(i) == [j \in 1..i |-> "a"]

SeqsUpTo(S, n) == UNION { [1..k -> S] : k \in 0..n }

InitAnalyze ==
  /\ pc = "done"
  /\ state = "START"
  /\ header = [keys |-> {"year"}, year |-> << "1" >>]
  /\ \E names \in SeqsUpTo(RosterNames, MaxRoster) :
       members = [i \in 1..Len(names) |-> [name |-> names[i], district |-> DistrictAt(i)]]
  /\ \E ws \in SeqsUpTo(RosterNames, MaxWitnesses) \ { << >> } :
     \E sns \in SeqsUpTo(Surnames, MaxTurns) \ { << >> } :
       hearings = << [keys |-> {"date", "witnesses", "speakers"},
                      date |-> Strip(LDate1),
                      witnesses |-> ws,
                      speakers |-> [i \in 1..Len(sns) |->
                                      [title |-> << "A", "a" >>,
                                       surname |-> sns[i],
                                       remarks |-> << "a" >>]]] >>
  /\ line = << >>
  /\ nread = 0
  /\ nwitness = 0
  /\ dateLines = << >>
  /\ committeeLines = << >>
  /\ turnLines = << >>
  /\ patternSeen = FALSE
  /\ palette = Lines
  /\ AnalyzeIdle
  /\ BatchIdle
  /\ PreIdle

NextAnalyze == Analyze

SpecAnalyze == InitAnalyze /\ [][NextAnalyze]_vars

(***************************************************************************)
(* Claims about analyze's attribution                                      *)
(***************************************************************************)
\* x occurs in name, compared case-insensitively
ContainsNoCase(name, x) == Contains(UpperStr(name), UpperStr(x))

\* C6: a turn is WITNESS whenever its surname occurs, compared
\* case-insensitively, in some witness-roster name of its hearing, whatever
\* the committee roster, and MEMBER otherwise; a turn whose surname occurs
\* only in the committee roster is MEMBER with a non-null district.
C6_RoleAttribution ==
  apc = "done" =>
    \A i \in 1..Len(rows) :
      LET sn == rows[i].surname
          inWitnesses == \E k \in 1..Len(hearings[1].witnesses) :
                           ContainsNoCase(hearings[1].witnesses[k], sn)
          inCommittee == \E k \in 1..Len(members) : ContainsNoCase(members[k].name, sn)
      IN /\ rows[i].role = IF inWitnesses THEN "WITNESS" ELSE "MEMBER"
         /\ (~inWitnesses /\ inCommittee) => ~rows[i].district.null

\* the roster positions whose name contains the surname uppercased
RosterHits(sn) ==
  {k \in 1..Len(members) : Contains(members[k].name, UpperStr(sn))}

Reattributed(frame, witnesses, roster) ==
  [i \in 1..Len(frame) |->
     [frame[i] EXCEPT !.role = Role(witnesses, frame[i].surname),
                      !.district = District(roster, frame[i].surname)]]

MaxFiles == 3

Suffixes == {".txt", ".json"}
FileRecords == [suffix : Suffixes, raises : BOOLEAN]

\* file.endswith(".txt") in parse.py, file.endswith(".json") in analyze.py
Eligible(f) == f.suffix = (IF prog = "parse" THEN ".txt" ELSE ".json")

InitBatch ==
  /\ ParseInit
  /\ AnalyzeIdle
  /\ PreIdle
  /\ prog \in {"parse", "analyze"}
  /\ files \in SeqsUpTo(FileRecords, MaxFiles)
  /\ bidx = 1
  /\ written = {}
  /\ bpc = "loop"

\* a file without the suffix is passed over
BatchSkip ==
  /\ bpc = "loop"
  /\ bidx <= Len(files)
  /\ ~Eligible(files[bidx])
  /\ bidx' = bidx + 1
  /\ UNCHANGED << prog, files, written, bpc, parseVars, analyzeVars, preVars >>

\* the file is processed and its output saved
BatchProcess ==
  /\ bpc = "loop"
  /\ bidx <= Len(files)
  /\ Eligible(files[bidx])
  /\ ~files[bidx].raises
  /\ written' = written \cup {bidx}
  /\ bidx' = bidx + 1
  /\ UNCHANGED << prog, files, bpc, parseVars, analyzeVars, preVars >>

\* processing the file raises: the exception leaves the loop and main
BatchRaise ==
  /\ bpc = "loop"
  /\ bidx <= Len(files)
  /\ Eligible(files[bidx])
  /\ files[bidx].raises
  /\ bpc' = "raised"
  /\ UNCHANGED << prog, files, bidx, written, parseVars, analyzeVars, preVars >>

\* the listing is exhausted: main returns
BatchEnd ==
  /\ bpc = "loop"
  /\ bidx > Len(files)
  /\ bpc' = "done"
  /\ UNCHANGED << prog, files, bidx, written, parseVars, analyzeVars, preVars >>

NextBatch ==
  \/ BatchSkip
  \/ BatchProcess
  \/ BatchRaise
  \/ BatchEnd

SpecBatch == InitBatch /\ [][NextBatch]_vars

\* C5: in directory mode a file whose processing fails aborts only itself:
\* when main has ended, every other eligible file has been processed and its
\* output written.
C5_SiblingsProcessed ==
  bpc \in {"done", "raised"} =>
    \A i \in 1..Len(files) :
      (Eligible(files[i]) /\ ~files[i].raises) => i \in written

(***************************************************************************)
(* Claims about parse_document and analyze                                 *)
(***************************************************************************)
\* C1: a document with k hearing-date lines yields exactly k Hearing records,
\* in the order of those lines, the i-th with the non-empty date of the i-th
\* date line trimmed, whatever state each date line is read in (stated for the
\* documents with at least one hearing-date line).
C1_HearingPerDateLine ==
  (pc = "done" /\ dateLines # << >>) =>
    /\ Len(hearings) = Len(dateLines)
    /\ \A i \in 1..Len(dateLines) :
         /\ "date" \in hearings[i].keys
         /\ hearings[i].date # << >>
         /\ hearings[i].date = Strip(dateLines[i])

\* the two lines after the accepted speaker line are non-blank and are not
\* speaker lines
C2_TwoContinuations ==
  /\ Len(turnLines) = 3
  /\ \A i \in {2, 3} : Strip(turnLines[i]) # << >> /\ ~MatchSPEAKER(turnLines[i])

\* C2: a speaker line accepted as a turn and followed by two non-blank lines
\* that are not speaker lines gives a turn whose remarks are the three trimmed
\* texts (of the speaker line, its captured remainder) joined by single
\* spaces, in order, and nothing else.
C2_ContinuationAccumulation ==
  C2_TwoContinuations =>
    /\ "speakers" \in Last(hearings).keys
    /\ Last(hearings).speakers # << >>
    /\ Last(Last(hearings).speakers).remarks =
         Strip(SpeakerScan(turnLines[1]).rest) \o << SP >> \o Strip(turnLines[2])
           \o << SP >> \o Strip(turnLines[3])

\* C2's case: the two continuation lines differ, and one is a hearing-date line
C2_Witness ==
  /\ C2_TwoContinuations
  /\ turnLines[2] # turnLines[3]
  /\ MatchHEARING(turnLines[3])

\* C4: a document none of whose lines matches the document-start, committee,
\* witness or speaker pattern is parsed without an exception into an empty
\* header, no members, and no hearing or one placeholder with no date,
\* witnesses or speakers.
C4_EmptyInput ==
  ~patternSeen =>
    /\ pc # "raised"
    /\ header.keys = {}
    /\ members = << >>
    /\ (hearings = << >> \/ hearings = << EmptyHearing >>)

\* C4's case: such a document, with a hearing-date line in it, was parsed
C4_Witness == pc = "done" /\ ~patternSeen /\ nread >= 2 /\ dateLines # << >>

\* the number of speaker turns of all hearings
RECURSIVE TotalTurns(_)
TotalTurns(hs) ==
  IF hs = << >> THEN 0 ELSE Len(Head(hs).speakers) + TotalTurns(Tail(hs))

\* C8: analyze returns one row per speaker turn of the document parsed,
\* hearings without witness lines included (stated for the documents with at
\* least one speaker turn).
C8_OneRowPerTurn ==
  (apc # "idle" /\ TotalTurns(hearings) > 0) =>
    apc = "done" /\ Len(rows) = TotalTurns(hearings)

\* the positions of the commas of s
Commas(s) == {i \in 1..Len(s) : s[i] = ","}
\* a `Name, District, Title` line: two commas, a name, and no run of two
\* whitespace symbols inside it
WellFormedMember(l) ==
  LET s == Strip(l)
  IN /\ Cardinality(Commas(s)) = 2
     /\ \A i \in 1..(Len(s) - 1) : ~(IsSpace(s[i]) /\ IsSpace(s[i + 1]))
     /\ \E i \in 1..Len(s) : ~IsSpace(s[i]) /\ \A c \in Commas(s) : i < c
\* the fields of a well-formed line, by its comma positions
NameField(l) ==
  LET s == Strip(l) c1 == CHOOSE c \in Commas(s) : \A d \in Commas(s) : c <= d
  IN Strip(SubSeq(s, 1, c1 - 1))
DistrictField(l) ==
  LET s == Strip(l)
      c1 == CHOOSE c \in Commas(s) : \A d \in Commas(s) : c <= d
      c2 == CHOOSE c \in Commas(s) : \A d \in Commas(s) : c >= d
  IN Strip(SubSeq(s, c1 + 1, c2 - 1))
TitleField(l) ==
  LET s == Strip(l) c2 == CHOOSE c \in Commas(s) : \A d \in Commas(s) : c >= d
  IN Strip(SubSeq(s, c2 + 1, Len(s)))
HasChairTitle(l) == \E i \in 1..Len(TitleField(l)) : TitleField(l)[i] = KwChair

\* C9: N well-formed `Name, District, Title` lines read in COMMITTEE state
\* append exactly N members, in line order, each with its line's name, and a
\* Chair's district is the penultimate field.
C9_RosterRoundTrip ==
  (\A i \in 1..Len(committeeLines) : WellFormedMember(committeeLines[i])) =>
    /\ pc # "raised"
    /\ Len(members) = Len(committeeLines)
    /\ \A i \in 1..Len(committeeLines) :
         /\ members[i].name = NameField(committeeLines[i])
         /\ HasChairTitle(committeeLines[i]) =>
              members[i].district = DistrictField(committeeLines[i])

\* C9's case: two well-formed lines, the second the Chair's, were read
C9_Witness ==
  /\ Len(committeeLines) = 2
  /\ \A i \in 1..2 : WellFormedMember(committeeLines[i])
  /\ ~HasChairTitle(committeeLines[1])
  /\ HasChairTitle(committeeLines[2])
  /\ state = "DOCUMENT"


(***************************************************************************)
(* preprocess.py: the regexes                                              *)
(***************************************************************************)
\* RE_COMMITTEE_BEGIN = ^\s+SUBCOMMITTEE ON DEFENSE$, re.match on a line
MatchRE_COMMITTEE_BEGIN(l) ==
  LET k == SkipWhile(l, 1, IsSpace)
  IN k > 1 /\ At(l, k) = KwCommitteeDefense /\ AtEnd(l, k + 1)

\* RE_COMMITTE_END = ^\s{2}$, re.match on a line
MatchRE_COMMITTE_END(l) == IsSpace(At(l, 1)) /\ IsSpace(At(l, 2)) /\ AtEnd(l, 3)

\* RE_WITNESS_BEGIN = ^\s+WITNESSES$, re.match on a line
MatchRE_WITNESS_BEGIN(l) ==
  LET k == SkipWhile(l, 1, IsSpace)
  IN k > 1 /\ At(l, k) = KwWitnesses /\ AtEnd(l, k + 1)

\* RE_WITNESS_END = ^$, re.match on a line: the line is "" or "\n"
MatchRE_WITNESS_END(l) == AtEnd(l, 1)

\* regex ^ with MULTILINE at position i of the text b
LineStart(b, i) == i = 1 \/ At(b, i - 1) = NL

\* the first index >= i of b whose symbol is in S (Len(b)+1 if none)
FirstIn(b, i, S) ==
  IF \E j \in i..Len(b) : b[j] \in S
  THEN CHOOSE j \in i..Len(b) : b[j] \in S /\ \A k \in i..(j-1) : b[k] \notin S
  ELSE Len(b) + 1

IsComma(c) == c = ","

\* RE_WITNESSES = ^([^,]+?),(.+?)(?=\n) with MULTILINE and DOTALL, tried at i:
\* group 1 runs to the first comma c, group 2 from c+1 to the first newline e
\* at or after c+2
WitnessMatchAt(b, i) ==
  LET c == FirstIn(b, i, {","})
      e == FirstIn(b, c + 2, {NL})
  IN [ok |-> LineStart(b, i) /\ i < c /\ c <= Len(b) /\ e <= Len(b),
      c |-> c, e |-> e]

\* parser.finditer(buffer.read()) with RE_WITNESSES from position pos, each
\* match as {"name": group(1).strip(), "title": group(2).strip()}
RECURSIVE WitnessRecords(_, _)
WitnessRecords(b, pos) ==
  LET starts == {i \in pos..Len(b) : WitnessMatchAt(b, i).ok}
  IN IF starts = {} THEN << >>
     ELSE LET i == CHOOSE x \in starts : \A y \in starts : x <= y
              mt == WitnessMatchAt(b, i)
          IN << [name |-> Strip(SubSeq(b, i, mt.c - 1)),
                 title |-> Strip(SubSeq(b, mt.c + 1, mt.e - 1))] >>
             \o WitnessRecords(b, mt.e)

\* the last character of the symbol is in \w
EndsWord(c) == IsWord(c) \/ c \in {KwCommittee, KwCommitteeDefense}

\* RE_COMMITTEE_MEMBERS begins (?:^\s|\b)\s+?: the index of the whitespace that
\* \s+? takes for an attempt at i, after ^\s or at a word boundary (0 if none)
MemberLead(b, i) ==
  IF LineStart(b, i) /\ IsSpace(At(b, i)) /\ IsSpace(At(b, i + 1)) THEN i + 1
  ELSE IF i > 1 /\ EndsWord(At(b, i - 1)) /\ IsSpace(At(b, i)) THEN i
  ELSE 0

\* ,+?([^,]*?),*?([^,]*?)(?=\t|\n) after the first comma c, with ,+? taking m
\* commas: group 2 is empty if a tab or newline comes before the next comma,
\* otherwise it runs to the next comma and group 3 follows that run of commas
MemberTry(b, c, m) ==
  LET q2 == FirstIn(b, c + m, {","})
      s1 == FirstIn(b, c + m, {TAB, NL})
      x  == SkipWhile(b, q2, IsComma)
      st == FirstIn(b, x, {TAB, NL, ","})
  IN IF s1 < q2 THEN [ok |-> TRUE, p |-> c + m, x |-> c + m, e |-> s1]
     ELSE IF q2 <= Len(b) /\ st <= Len(b) /\ b[st] # ","
          THEN [ok |-> TRUE, p |-> q2, x |-> x, e |-> st]
          ELSE [ok |-> FALSE, p |-> 0, x |-> 0, e |-> 0]

\* RE_COMMITTEE_MEMBERS tried at i: ,+? is lazy, so the least m that succeeds
MemberMatchAt(b, i) ==
  LET j == MemberLead(b, i)
      c == FirstIn(b, j + 1, {","})
      run == SkipWhile(b, c, IsComma) - c
      ms == {m \in 1..run : MemberTry(b, c, m).ok}
  IN IF j = 0 \/ c > Len(b) \/ ms = {}
     THEN [ok |-> FALSE, j |-> 0, c |-> 0, m |-> 0]
     ELSE [ok |-> TRUE, j |-> j, c |-> c,
           m |-> CHOOSE m \in ms : \A n \in ms : m <= n]

\* parser.finditer(buffer.read()) with RE_COMMITTEE_MEMBERS from position pos,
\* each match as {"name", "district", "title"}, stripped
RECURSIVE CommitteeRecords(_, _)
CommitteeRecords(b, pos) ==
  LET starts == {i \in pos..Len(b) : MemberMatchAt(b, i).ok}
  IN IF starts = {} THEN << >>
     ELSE LET i == CHOOSE x \in starts : \A y \in starts : x <= y
              mt == MemberMatchAt(b, i)
              t == MemberTry(b, mt.c, mt.m)
          IN << [name |-> Strip(SubSeq(b, mt.j + 1, mt.c - 1)),
                 district |-> Strip(SubSeq(b, mt.c + mt.m, t.p - 1)),
                 title |-> Strip(SubSeq(b, t.x, t.e - 1))] >>
             \o CommitteeRecords(b, t.e)

\* a character of [0-9A-Z\s\.\(\)\n\-,]
IsHeadingChar(c) ==
  \/ IsSpace(c)
  \/ c \in {"A", "B", "1", "2", ".", ",", KwWitness, KwWitnesses, KwCommittee,
            KwCommitteeDefense, KwDocument}

\* \s+[0-9A-Z\s...]+\n{2} at position s of b: the lengths T the two classes can
\* take together
HeadingLengths(b, s) ==
  IF ~IsSpace(At(b, s)) THEN {}
  ELSE {T \in 2..(SkipWhile(b, s, IsHeadingChar) - s) :
          At(b, s + T) = NL /\ At(b, s + T + 1) = NL}

\* the lookahead (?=\s+[0-9A-Z\s...]+\n{2}) at position e of b
NextHeadingAt(b, e) == HeadingLengths(b, e) # {}

\* the end of (.+?) for a body that starts at g: the first position after g+1
\* where the lookahead holds (0 if none)
BodyEnd(b, g) ==
  LET es == {e \in (g + 1)..Len(b) : NextHeadingAt(b, e)}
  IN IF es = {} THEN 0 ELSE CHOOSE e \in es : \A f \in es : e <= f

\* RE_CONTENT_BLOCKS tried at i: \n{2}, the longest heading (both classes are
\* greedy) after which a body ends, the body
BlockMatchAt(b, i) ==
  LET Ts == {T \in HeadingLengths(b, i + 2) : BodyEnd(b, i + T + 4) # 0}
  IN IF At(b, i) # NL \/ At(b, i + 1) # NL \/ Ts = {}
     THEN [ok |-> FALSE, start |-> 0, body |-> 0, end |-> 0]
     ELSE LET T == CHOOSE x \in Ts : \A y \in Ts : x >= y
          IN [ok |-> TRUE, start |-> i, body |-> i + T + 4,
              end |-> BodyEnd(b, i + T + 4)]

\* the positions at or after pos where RE_CONTENT_BLOCKS matches
BlockStarts(b, pos) == {i \in pos..Len(b) : BlockMatchAt(b, i).ok}

\* (Mr\.|Mrs\.|Ms\.|General|Secretary), two of its alternatives: the number
\* of symbols the honorific at position i of b takes (0 if none)
HonorificLen(b, i) ==
  IF At(b, i) = KwMr /\ At(b, i + 1) = "." THEN 2
  ELSE IF At(b, i) = KwGeneral THEN 1
  ELSE 0

\* a character of [\w-]
IsNameChar(c) == IsWord(c) \/ c = "-"

\* (\s\[\w+\])* from position p of b: the position after the last tag
RECURSIVE SkipTags(_, _)
SkipTags(b, p) ==
  LET w == SkipWhile(b, p + 2, IsWord)
  IN IF IsSpace(At(b, p)) /\ At(b, p + 1) = "[" /\ w > p + 2 /\ At(b, w) = "]"
     THEN SkipTags(b, w + 1)
     ELSE p

\* (Mr\.|...)\s([\w-]+) at position i of b, the honorific, a whitespace, the
\* name: the position after the name, 0 if there is no match
HonorificNameEnd(b, i) ==
  LET h == HonorificLen(b, i)
  IN IF h > 0 /\ IsSpace(At(b, i + h)) /\ IsNameChar(At(b, i + h + 1))
     THEN SkipWhile(b, i + h + 1, IsNameChar)
     ELSE 0

\* (?<=\s{4})(Mr\.|...)\s([\w-]+)(\s\[\w+\])*\. of RE_SPEAKERS at position i of
\* b, four whitespace characters before i, the honorific and the name, the
\* tags, the period: the position where (.*?) starts, 0 if there is no match
SpeakerRemAt(b, i) ==
  LET t == SkipTags(b, HonorificNameEnd(b, i))
  IN IF /\ i >= 5
        /\ \A k \in (i - 4)..(i - 1) : IsSpace(b[k])
        /\ t > 0
        /\ At(b, t) = "."
     THEN t + 1
     ELSE 0

\* the lookahead of RE_SPEAKERS at position e of b:
\* \n{2,}, or \s{4,}\[, or \s{4,}(Mr\.|...)\s[\w-]+\.
SpeakerEndAt(b, e) ==
  LET k == SkipWhile(b, e, IsSpace)
  IN \/ At(b, e) = NL /\ At(b, e + 1) = NL
     \/ /\ k - e >= 4
        /\ \/ At(b, k) = "["
           \/ At(b, HonorificNameEnd(b, k)) = "."

\* (.*?) from position e of b: the first position at or after e where the
\* lookahead holds, 0 if it holds nowhere
RECURSIVE FirstSpeakerEnd(_, _)
FirstSpeakerEnd(b, e) ==
  IF e > Len(b) THEN 0
  ELSE IF SpeakerEndAt(b, e) THEN e
  ELSE FirstSpeakerEnd(b, e + 1)

\* RE_SPEAKERS tried at i: the position where the match ends, 0 if there is
\* no match
SpeakerEndOf(b, i) ==
  IF SpeakerRemAt(b, i) = 0 THEN 0 ELSE FirstSpeakerEnd(b, SpeakerRemAt(b, i))

\* speakers.finditer(body) from position pos: the positions where the matches
\* start, in order
RECURSIVE SpeakerMatches(_, _)
SpeakerMatches(b, pos) ==
  IF pos > Len(b) THEN << >>
  ELSE IF SpeakerEndOf(b, pos) > 0
       THEN << pos >> \o SpeakerMatches(b, SpeakerEndOf(b, pos))
       ELSE SpeakerMatches(b, pos + 1)

\* runs of spaces made single spaces
RECURSIVE Squeeze(_)
Squeeze(r) ==
  IF Len(r) <= 1 THEN r
  ELSE IF r[1] = SP /\ r[2] = SP THEN Squeeze(Tail(r))
  ELSE << r[1] >> \o Squeeze(Tail(r))

\* remarks.translate(str.maketrans("", "", "\r\n\t")), then
\* " ".join(remarks.split())
CleanRemarks(r) == Squeeze(Strip(SelectSeq(r, LAMBDA c : c \notin {NL, TAB})))

\* re.sub("\s+", " ", content_block.group(1).strip())
TopicOf(g) ==
  LET t == Strip(g)
  IN Squeeze([i \in 1..Len(t) |-> IF IsSpace(t[i]) THEN SP ELSE t[i]])

\* the dict appended to output["content"]
SpeakerTurn(topic, title, name, remarks) ==
  [topic |-> topic, title |-> title, name |-> name,
   word_count |-> WordCount(remarks), remarks |-> remarks]

\* groups 1, 2 and 4 of the match of RE_SPEAKERS that starts at position i of
\* the body bd, made the dict of a block with that topic
SpeakerTurnAt(topic, bd, i) ==
  SpeakerTurn(topic,
              SubSeq(bd, i, i + HonorificLen(bd, i) - 1),
              SubSeq(bd, i + HonorificLen(bd, i) + 1, HonorificNameEnd(bd, i) - 1),
              CleanRemarks(SubSeq(bd, SpeakerRemAt(bd, i), SpeakerEndOf(bd, i) - 1)))

\* the dicts of the speakers that start at the positions ms of the body bd
BodyTurns(topic, bd, ms) == [k \in 1..Len(ms) |-> SpeakerTurnAt(topic, bd, ms[k])]

\* the dicts appended to output["content"] for a block of b with heading
\* b[start..body-1] and body b[body..end-1]
BlockTurns(b, mt) ==
  BodyTurns(TopicOf(SubSeq(b, mt.start, mt.body - 1)),
            SubSeq(b, mt.body, mt.end - 1),
            SpeakerMatches(SubSeq(b, mt.body, mt.end - 1), 1))

\* the lines of a file from position pos on, as one text
RECURSIVE Flatten(_, _)
Flatten(f, pos) == IF pos > Len(f) THEN << >> ELSE f[pos] \o Flatten(f, pos + 1)


(***************************************************************************)
(* preprocess.py: preprocess_document                                      *)
(***************************************************************************)
\* file.readline(): the next line, "" at the end of the file
ReadLine(f, pos) == IF pos <= Len(f) THEN f[pos] ELSE << >>
\* the position after file.readline()
Advance(f, pos) == IF pos <= Len(f) THEN pos + 1 ELSE pos

\* while True: line = file.readline(); if re.match(RE_COMMITTEE_BEGIN, line)
CommitteeScan ==
  /\ ppc = "committee_scan"
  /\ pline' = ReadLine(file, fpos)
  /\ fpos' = Advance(file, fpos)
  /\ IF MatchRE_COMMITTEE_BEGIN(pline')
     THEN ppc' = "committee_buffer" /\ buffer' = << >>
     ELSE UNCHANGED << ppc, buffer >>
  /\ UNCHANGED << file, committee, pwitnesses, text, kpos, blocks, content >>
  /\ UNCHANGED << parseVars, analyzeVars, batchVars >>

\* while not re.match(RE_COMMITTE_END, line): read a line into the buffer;
\* after the loop the members are extracted and the outer loop is left
CommitteeBuffer ==
  /\ ppc = "committee_buffer"
  /\ IF ~MatchRE_COMMITTE_END(pline)
     THEN /\ pline' = ReadLine(file, fpos)
          /\ fpos' = Advance(file, fpos)
          /\ buffer' = buffer \o pline'
          /\ UNCHANGED << ppc, committee >>
     ELSE /\ committee' = CommitteeRecords(buffer, 1)
          /\ ppc' = "witness_scan"
          /\ UNCHANGED << pline, fpos, buffer >>
  /\ UNCHANGED << file, pwitnesses, text, kpos, blocks, content >>
  /\ UNCHANGED << parseVars, analyzeVars, batchVars >>

\* while True: line = file.readline(); if re.match(RE_WITNESS_BEGIN, line):
\* a new buffer, one line skipped, the next line read
WitnessScan ==
  /\ ppc = "witness_scan"
  /\ LET l1 == ReadLine(file, fpos)
         p1 == Advance(file, fpos)
         p2 == Advance(file, p1)
     IN IF MatchRE_WITNESS_BEGIN(l1)
        THEN /\ buffer' = << >>
             /\ pline' = ReadLine(file, p2)
             /\ fpos' = Advance(file, p2)
             /\ ppc' = "witness_buffer"
        ELSE /\ pline' = l1
             /\ fpos' = p1
             /\ UNCHANGED << ppc, buffer >>
  /\ UNCHANGED << file, committee, pwitnesses, text, kpos, blocks, content >>
  /\ UNCHANGED << parseVars, analyzeVars, batchVars >>

\* while not re.match(RE_WITNESS_END, line): the line goes to the buffer and
\* the next is read; after the loop the witnesses are extracted
WitnessBuffer ==
  /\ ppc = "witness_buffer"
  /\ IF ~MatchRE_WITNESS_END(pline)
     THEN /\ buffer' = buffer \o pline
          /\ pline' = ReadLine(file, fpos)
          /\ fpos' = Advance(file, fpos)
          /\ UNCHANGED << ppc, pwitnesses >>
     ELSE /\ pwitnesses' = WitnessRecords(buffer, 1)
          /\ ppc' = "content"
          /\ UNCHANGED << pline, fpos, buffer >>
  /\ UNCHANGED << file, committee, text, kpos, blocks, content >>
  /\ UNCHANGED << parseVars, analyzeVars, batchVars >>

\* buffer = StringIO(file.read()); content_blocks.finditer(buffer.read())
ReadContent ==
  /\ ppc = "content"
  /\ text' = Flatten(file, fpos)
  /\ fpos' = Len(file) + 1
  /\ kpos' = 1
  /\ ppc' = "blocks"
  /\ UNCHANGED << file, pline, buffer, committee, pwitnesses, blocks, content >>
  /\ UNCHANGED << parseVars, analyzeVars, batchVars >>

\* for content_block in content_blocks.finditer(...): the leftmost match at or
\* after the end of the match before, and its speakers appended to the output
FindBlock ==
  /\ ppc = "blocks"
  /\ BlockStarts(text, kpos) # {}
  /\ LET i == CHOOSE x \in BlockStarts(text, kpos) :
                \A y \in BlockStarts(text, kpos) : x <= y
         mt == BlockMatchAt(text, i)
     IN /\ blocks' = Append(blocks, [start |-> mt.start, body |-> mt.body, end |-> mt.end])
        /\ content' = content \o BlockTurns(text, mt)
        /\ kpos' = mt.end
  /\ UNCHANGED << ppc, file, fpos, pline, buffer, committee, pwitnesses, text >>
  /\ UNCHANGED << parseVars, analyzeVars, batchVars >>

\* no further match: the loop ends and preprocess_document returns output
BlocksDone ==
  /\ ppc = "blocks"
  /\ BlockStarts(text, kpos) = {}
  /\ ppc' = "done"
  /\ UNCHANGED << file, fpos, pline, buffer, committee, pwitnesses, text, kpos, blocks, content >>
  /\ UNCHANGED << parseVars, analyzeVars, batchVars >>

(***************************************************************************)
(* preprocess_document on the files of up to MaxFileLines lines: the two   *)
(* roster loops, up to file.read()                                         *)
(***************************************************************************)
\* the longest file
MaxFileLines == 5

PBegin == << SP, KwCommitteeDefense, NL >>
PMember == << SP, SP, "A", "b", ",", SP, "A", ",", SP, KwChair, NL >>
PEnd == << SP, SP, NL >>
PWitnesses == << SP, KwWitnesses, NL >>
PWitness == << "A", "B", ",", SP, "a", NL >>
PBody == << "a", NL >>
PreLines == { PBegin, PMember, PEnd, PWitnesses, PWitness, PBody, LBlank }

\* the state after output = {...} and open(path)
PreStart ==
  /\ ppc = "committee_scan"
  /\ fpos = 1
  /\ pline = << >>
  /\ buffer = << >>
  /\ committee = << >>
  /\ pwitnesses = << >>
  /\ text = << >>
  /\ kpos = 1
  /\ blocks = << >>
  /\ content = << >>

InitPre ==
  /\ ParseInit
  /\ AnalyzeIdle
  /\ BatchIdle
  /\ file \in SeqsUpTo(PreLines, MaxFileLines)
  /\ PreStart

NextPre ==
  \/ CommitteeScan
  \/ CommitteeBuffer
  \/ WitnessScan
  \/ WitnessBuffer
  \/ ReadContent

SpecPre == InitPre /\ [][NextPre]_vars

\* the loop the program is in never changes the state again
PreHangs ==
  /\ ppc \in {"committee_scan", "committee_buffer", "witness_scan", "witness_buffer"}
  /\ ~ENABLED << NextPre >>_vars

NoCommitteeBegin == \A i \in 1..Len(file) : ~MatchRE_COMMITTEE_BEGIN(file[i])
NoWitnessBegin == \A i \in 1..Len(file) : ~MatchRE_WITNESS_BEGIN(file[i])

\* C3: on a file with a section missing preprocess_document terminates: it
\* never stays in a loop for ever, and once the two rosters are settled the
\* roster of a section whose begin-marker no line matches is empty (stated
\* for the files with at least one line).
C3_MissingSectionTerminates ==
  (file # << >> /\ (NoCommitteeBegin \/ NoWitnessBegin)) =>
    /\ ~PreHangs
    /\ (ppc = "blocks" /\ NoCommitteeBegin) => committee = << >>
    /\ (ppc = "blocks" /\ NoWitnessBegin) => pwitnesses = << >>


(***************************************************************************)
(* preprocess_document from file.read() on: the content region is made of  *)
(* up to MaxChunks groups of lines, after a head whose two sections are    *)
(* empty                                                                   *)
(***************************************************************************)
\* the most groups of lines in a content region
MaxChunks == 6

PHead == << SP, "A", NL >>
PSpeaker == << SP, SP, SP, SP, KwMr, ".", SP, "A", ".", SP, "a", NL >>
\* a blank line; a heading line between blank lines; a line of body text; a
\* heading line; a line that opens a speaker's turn
Chunks == { << LBlank >>, << LBlank, PHead, LBlank >>, << PBody >>, << PHead >>,
            << PSpeaker >> }

\* the lines before the content region: both markers, no member, no witness
RosterHead == << PBegin, PEnd, PWitnesses, LBlank, LBlank >>

RECURSIVE ConcatAll(_)
ConcatAll(q) == IF q = << >> THEN << >> ELSE Head(q) \o ConcatAll(Tail(q))

\* the state when the witness loop is left on such a file
InitBlocks ==
  /\ ParseInit
  /\ AnalyzeIdle
  /\ BatchIdle
  /\ \E q \in SeqsUpTo(Chunks, MaxChunks) : file = RosterHead \o ConcatAll(q)
  /\ ppc = "content"
  /\ fpos = Len(RosterHead) + 1
  /\ pline = LBlank
  /\ buffer = << >>
  /\ committee = << >>
  /\ pwitnesses = << >>
  /\ text = << >>
  /\ kpos = 1
  /\ blocks = << >>
  /\ content = << >>

NextBlocks ==
  \/ ReadContent
  \/ FindBlock
  \/ BlocksDone

SpecBlocks == InitBlocks /\ [][NextBlocks]_vars

\* the content region begins with a heading between blank lines
BeginsWithHeading ==
  At(text, 1) = NL /\ At(text, 2) = NL /\ HeadingLengths(text, 3) # {}

\* C10: the extents of the topic blocks are disjoint and in order make up the
\* whole content region: the first begins where the region does, each ends
\* where the next begins and the last ends at the end of the text (stated for
\* the regions that begin with a heading).
C10_BlocksCoverContent ==
  (ppc = "done" /\ BeginsWithHeading) =>
    /\ blocks # << >>
    /\ blocks[1].start = 1
    /\ \A i \in 1..(Len(blocks) - 1) : blocks[i].end = blocks[i + 1].start
    /\ blocks[Len(blocks)].end = Len(text) + 1

(***************************************************************************)
(* Claims about the turns and the hearings of parse_document               *)
(***************************************************************************)
\* the speaker turns of all hearings, in order
RECURSIVE AllTurns(_)
AllTurns(hs) == IF hs = << >> THEN << >> ELSE Head(hs).speakers \o AllTurns(Tail(hs))

\* C12: a hearing-date line ends the open turn: once a hearing-date line has
\* been read after the speaker line that opened the last turn, the scanner is
\* no longer in SPEAKER state with that turn open, and the turn's remarks do
\* not hold the text of the date line.
C12_DateLineEndsTurn ==
  \A i \in 2..Len(turnLines) :
    MatchHEARING(turnLines[i]) =>
      /\ state # "SPEAKER"
      /\ ~Contains(Last(AllTurns(hearings)).remarks, Strip(turnLines[i]))

\* C13: parse_document never raises, whatever the lines, committee entries of
\* any number of comma-separated fields included: it is scanning, or it has
\* returned.
C13_NeverRaises == pc \in {"scan", "done"}

\* C14: a truncated file does not hang preprocess_document: inside the
\* committee section or the witness section, the end-marker not yet seen, the
\* loop never stays where it is for ever.
C14_TruncatedTerminates ==
  ppc \in {"committee_buffer", "witness_buffer"} => ~PreHangs

\* the edges of the machine as the specification draws it
SpecEdges ==
  { << "START", "DOCUMENT" >>, << "DOCUMENT", "COMMITTEE" >>,
    << "DOCUMENT", "HEARING" >>, << "HEARING", "WITNESSES" >>,
    << "WITNESSES", "CONTENT" >>, << "CONTENT", "SPEAKER" >>,
    << "SPEAKER", "CONTENT" >>, << "CONTENT", "HEARING" >> }

\* C15 as stated: every change of the scanner's state is one of the eight
\* edges START-DOCUMENT, DOCUMENT-COMMITTEE, DOCUMENT-HEARING,
\* HEARING-WITNESSES, WITNESSES-CONTENT, CONTENT-SPEAKER, SPEAKER-CONTENT and
\* CONTENT-HEARING.
C15_OnlySpecEdges ==
  [][state' # state => << state, state' >> \in SpecEdges]_vars

\* C15, amended: every change of the scanner's state is one of the eight
\* edges or the edge COMMITTEE-DOCUMENT, taken on the committee-end line.
C15_OnlyMachineEdges ==
  [][state' # state =>
       \/ << state, state' >> \in SpecEdges
       \/ state = "COMMITTEE" /\ state' = "DOCUMENT" /\ MatchCOMMITTEE_END(line')]_vars

\* C15's case: a document whose scan went through the committee section and
\* on, through the witness section, to the content
C15_Witness == state = "CONTENT" /\ committeeLines # << >>

\* q is p with elements added at its end
IsPrefix(p, q) == Len(p) <= Len(q) /\ SubSeq(q, 1, Len(p)) = p

\* C16: a step changes at most the last hearing: the sequence of hearings
\* grows by at most one, every hearing but the last of the new sequence is as
\* it was, and in the last one the date once set stays, the witnesses and the
\* turns only grow at their ends, the turns before the last as they were and
\* the last with its title and surname.
C16_EarlierHearingsImmutable ==
  [][/\ Len(hearings') \in {Len(hearings), Len(hearings) + 1}
     /\ \A i \in 1..(Len(hearings') - 1) : hearings'[i] = hearings[i]
     /\ Len(hearings') = Len(hearings) =>
          LET old == Last(hearings)
              new == Last(hearings')
          IN /\ "date" \in old.keys => new.date = old.date
             /\ IsPrefix(old.witnesses, new.witnesses)
             /\ Len(new.witnesses) + Len(new.speakers)
                  <= Len(old.witnesses) + Len(old.speakers) + 1
             /\ Len(old.speakers) <= Len(new.speakers)
             /\ \A k \in 1..(Len(old.speakers) - 1) : new.speakers[k] = old.speakers[k]
             /\ old.speakers # << >> =>
                  /\ new.speakers[Len(old.speakers)].title = Last(old.speakers).title
                  /\ new.speakers[Len(old.speakers)].surname = Last(old.speakers).surname]_vars

\* C16's case: a second hearing that has received a witness line after the
\* first hearing got its date
C16_Witness ==
  /\ Len(hearings) = 2
  /\ hearings[2].witnesses # << >>
  /\ "date" \in hearings[1].keys

\* C17: a blank line read in SPEAKER state closes the open turn for good: the
\* blank line changes no turn and leads to CONTENT, and every line read in
\* CONTENT state that is not a speaker line, whatever it holds, leaves all
\* the turns as they were.
C17_BlankClosesTurn ==
  [][/\ (state = "SPEAKER" /\ nread' # nread /\ Strip(line') = << >>) =>
          state' = "CONTENT" /\ hearings' = hearings
     /\ (state = "CONTENT" /\ nread' # nread /\ ~MatchSPEAKER(line')) =>
          /\ AllTurns(hearings') = AllTurns(hearings)
          /\ state' \in {"CONTENT", "HEARING"}]_vars

\* C17's case: after the blank line, a line that matches the speaker pattern
\* only in part has been read
C17_Witness ==
  /\ Len(turnLines) = 3
  /\ Strip(turnLines[2]) = << >>
  /\ turnLines[3] = LPartial

(***************************************************************************)
(* parse_document on files with two document-start lines of different      *)
(* years, made of fewer kinds of line                                      *)
(***************************************************************************)
HeaderLines == { LDocument, LDocument2, LCommittee, LNote, LDate1, LWitnessBegin,
                 LIndented, LSpeaker1, LText, LBlank }

InitHeader == ParseStart /\ palette = HeaderLines /\ AnalyzeIdle /\ BatchIdle /\ PreIdle

SpecHeader == InitHeader /\ [][Next]_vars

\* C18: Header.year is written at most once: it is written by the line that
\* matches DOCUMENT in START state, the first such line of the file, with
\* that line's year; once written the header never changes, whatever the
\* later lines; and the scanner never returns to START.
C18_YearWrittenOnce ==
  [][/\ "year" \in header.keys => header' = header
     /\ state # "START" => state' # "START"
     /\ (state = "START" /\ nread' # nread /\ MatchDOCUMENT(line')) =>
          header' = [keys |-> {"year"}, year |-> DocumentYear(line')]
     /\ header' # header => state = "START" /\ MatchDOCUMENT(line')]_vars

\* C18's case: a later line matches DOCUMENT with another year than the one
\* recorded
C18_Witness ==
  /\ "year" \in header.keys
  /\ MatchDOCUMENT(line)
  /\ DocumentYear(line) # header.year

\* C20: in SPEAKER state the last hearing has the key "speakers" and a
\* non-empty list of turns, the last of them the turn of the speaker line
\* accepted last: the guard of the continuation branch holds, so a
\* continuation line is never dropped.
C20_SpeakerStateHasOpenTurn ==
  state = "SPEAKER" =>
    /\ "speakers" \in Last(hearings).keys
    /\ Last(hearings).speakers # << >>
    /\ AddRemarks(hearings, LText) # hearings
    /\ turnLines # << >> =>
         /\ Last(Last(hearings).speakers).title = NewTurn(turnLines[1]).title
         /\ Last(Last(hearings).speakers).surname = NewTurn(turnLines[1]).surname

\* C20's case: in SPEAKER state a continuation line has been read after the
\* speaker line
C20_Witness ==
  /\ state = "SPEAKER"
  /\ Len(turnLines) = 2
  /\ ~MatchSPEAKER(turnLines[2])


(***************************************************************************)
(* Claims about the speaker turns of preprocess_document                   *)
(***************************************************************************)
\* where a turn that starts remarks at rem is to end: the earliest of a double
\* line-break, the next honorific-anchored token (or bracketed tag), and the
\* end of the block
TurnEnd(b, rem) ==
  LET es == {e \in rem..(Len(b) + 1) : SpeakerEndAt(b, e) \/ e = Len(b) + 1}
  IN CHOOSE e \in es : \A f \in es : e <= f

\* the turns of a body from position pos on: one for every honorific-anchored
\* turn start, each ending at TurnEnd
RECURSIVE TurnsOf(_, _)
TurnsOf(b, pos) ==
  IF pos > Len(b) THEN << >>
  ELSE IF SpeakerRemAt(b, pos) = 0 THEN TurnsOf(b, pos + 1)
  ELSE << [name |-> SubSeq(b, pos + HonorificLen(b, pos) + 1, HonorificNameEnd(b, pos) - 1),
           remarks |-> CleanRemarks(SubSeq(b, SpeakerRemAt(b, pos),
                                           TurnEnd(b, SpeakerRemAt(b, pos)) - 1))] >>
         \o TurnsOf(b, TurnEnd(b, SpeakerRemAt(b, pos)))

\* the turns of the blocks found, block after block
RECURSIVE TurnsOfBlocks(_, _)
TurnsOfBlocks(b, bs) ==
  IF bs = << >> THEN << >>
  ELSE TurnsOf(SubSeq(b, Head(bs).body, Head(bs).end - 1), 1)
         \o TurnsOfBlocks(b, Tail(bs))

\* C19: every honorific-anchored turn start in the body of a topic block
\* yields one turn in output["content"], its remarks ending at the earliest
\* of a double line-break, the next honorific-anchored token and the end of
\* the block; the last turn of a block is emitted with the remarks up to the
\* end of the block.
C19_EveryTurnEmitted ==
  ppc = "done" =>
    [k \in 1..Len(content) |-> [name |-> content[k].name, remarks |-> content[k].remarks]]
      = TurnsOfBlocks(text, blocks)

====
